---------------------------- MODULE Spec2Model ----------------------------
(***************************************************************************)
(* A model of mac2bdf.c: the conversion of one Macintosh FONT/NFNT         *)
(* resource, held in memory, into one BDF file.                            *)
(*                                                                         *)
(* The resource is the 26-byte header fp (a record of big-endian byte      *)
(* pairs, as struct _FontRsrcRec) followed by the bytes mem (the bit       *)
(* image, the location table, the offset/width table).  One behaviour is   *)
(* one call made by a client: either FontInfo on its own, or FontDump,     *)
(* which opens the file, calls FontInfo, writes the header and then one    *)
(* record per glyph.  Both glyph loops advance one code per step.          *)
(*                                                                         *)
(* Reads and writes outside the objects the code owns are undefined in C.  *)
(* They are modelled as a choice between the process being killed and the  *)
(* run going on with a value the surrounding memory happens to hold.       *)
(***************************************************************************)
EXTENDS Integers, Sequences, FiniteSets, TLC

\* ------------------------------------------------------------------ bounds
\* The largest number of character codes of a font with firstChar <= lastChar.
MaxGlyphs == 2
\* The number of bit columns of the image that the glyphs of a font take up
\* together, at most.
MaxCols == 2
\* How many iterations of a glyph loop are followed once its 16-bit counter
\* has wrapped round to 0.
MaxWrapSteps == 1

\* -------------------------------------------------------- program constants
\* CARD16 is 16 bits wide: values are taken modulo 2^16.
W16 == 65536
\* The largest INT16.
MaxInt16 == 32767
\* The value FontDump returns after a conversion.
RetOk == 1
\* The value FontDump returns when fopen fails.
RetFail == 0

\* ----------------------------------------------------------- byte decoding
\* CARD16 toushort(p): (p[0] << 8) | p[1], cut to 16 bits.
toushort(p) == (p[1] * 256 + p[2]) % W16

\* The conversion of an int to INT16 (two's complement, as every build does).
ToInt16(n) == ((n + MaxInt16 + 1) % W16) - (MaxInt16 + 1)

\* INT16 toshort(p): the unsigned value reinterpreted as signed.
toshort(p) == ToInt16(toushort(p))

\* The two bytes p of a 16-bit big-endian field holding n (used to build inputs).
BE16(n) == << ((n + W16) % W16) \div 256, ((n + W16) % W16) % 256 >>

RECURSIVE Pow2(_)
Pow2(n) == IF n <= 0 THEN 1 ELSE 2 * Pow2(n - 1)

\* ----------------------------------------------------------------- printf
HexDigit == << "0", "1", "2", "3", "4", "5", "6", "7",
               "8", "9", "a", "b", "c", "d", "e", "f" >>

RECURSIVE HexDigits(_)
HexDigits(v) == IF v < 16 THEN << HexDigit[v + 1] >>
                ELSE Append(HexDigits(v \div 16), HexDigit[(v % 16) + 1])

\* printf("%02x", v): at least two lower-case hexadecimal digits.
Hex02(v) == IF v < 16 THEN << "0" >> \o HexDigits(v) ELSE HexDigits(v)

\* One line of the output file: a keyword with its numbers, or a bitmap row.
Line(kw, args) == [kw |-> kw, args |-> args, text |-> << >>]
RowText(text) == [kw |-> "", args |-> << >>, text |-> text]

VARIABLES
  fp,           \* the header: a record of byte pairs (struct _FontRsrcRec)
  mem,          \* the bytes that follow the header, from & fp[1] on
  oddAddr,      \* whether & fp[1] is an odd address
  littleEndian, \* whether the host stores a 16-bit word low byte first
  pc,           \* where the call is
  entry,        \* the function the client called: "FontInfo" or "FontDump"
  name,         \* FontDump's name argument: "NULL", "" or a family name
  size,         \* FontDump's size argument
  fg, lg,       \* the locals holding firstChar and lastChar (CARD16)
  mk, wd, ht, rw, \* the locals holding kernMax, fRectWidth, fRectHeight, rowWords
  g,            \* the loop counter (CARD16)
  ng,           \* FontInfo's glyph count (INT16)
  gp,           \* FontInfo's raster, wd * ht cells
  ret,          \* the caller's top, left, bottom, right, ng
  fout,         \* the lines written to the output file
  fopens,       \* how many times fopen created (or replaced) the file
  isOpen,       \* whether the file is open
  decoded,      \* whether FontDump has decoded the header
  result,       \* FontDump's return value, or "none"
  log,          \* history: what each loop iteration read and computed
  wrapSteps     \* iterations made since the loop counter wrapped round

vars == << fp, mem, oddAddr, littleEndian, pc, entry, name, size,
           fg, lg, mk, wd, ht, rw, g, ng, gp,
           ret, fout, fopens, isOpen, decoded, result, log, wrapSteps >>

\* ------------------------------------------------------------ header fields
\* fg = toushort(fp->ftFirstChar); ... rw = toshort(fp->ftRowWords);
Decode ==
  /\ fg' = toushort(fp.ftFirstChar)
  /\ lg' = toushort(fp.ftLastChar)
  /\ mk' = toshort(fp.ftKernMax)
  /\ wd' = toshort(fp.ftFRectWidth)
  /\ ht' = toshort(fp.ftFRectHeight)
  /\ rw' = toshort(fp.ftRowWords)

\* toshort(fp->ftDescent)
descent == toshort(fp.ftDescent)

\* Byte offsets from bitImage = & fp[1].
\* locTable = & bitImage[(rw * ht) << 1]
locTable == (rw * ht) * 2
\* The offset/width table placed right after lg - fg + 2 location entries.
owTableAfterTwo == locTable + (lg - fg + 2) * 2

\* owTable = & locTable[(lg - fg + 3) << 1]
owTable == locTable + (lg - fg + 3) * 2


\* ------------------------------------------------------------ memory reads
\* What a read outside the resource may return when the process survives it.
AmbientWords == {0, 1}

\* The two bytes at byte offset off from bitImage lie inside the resource.
InBounds(off) == off >= 0 /\ off + 2 <= Len(mem)

\* toushort(& bitImage[off]): the values the read may give.
ReadVals(off) ==
  IF InBounds(off) THEN { toushort(<< mem[off + 1], mem[off + 2] >>) }
  ELSE AmbientWords

\* The extent in bytes of the object bp points to: the scratch copy of the
\* bit image when bitImage is odd, else the resource itself.
\*   if ((CARD32) bitImage & 0x1) { bp = alloca(ht * rw * 2); memcpy(...) }
\*   else bp = (CARD16 *) bitImage;
BpLen == IF oddAddr THEN ht * rw * 2 ELSE Len(mem)

WordInBounds(k) == k >= 0 /\ 2 * k + 2 <= BpLen

\* bp[k]: a native 16-bit load of the bytes at 2k and 2k + 1.
NativeWord(k) ==
  IF littleEndian THEN mem[2 * k + 2] * 256 + mem[2 * k + 1]
  ELSE mem[2 * k + 1] * 256 + mem[2 * k + 2]

\* (bp[i * rw + (j / 16)] >> (15 - (j % 16))) & 1; fill stands for a word
\* read outside bp.
Pixel(i, j, fill) ==
  LET k == i * rw + (j \div 16)
  IN IF WordInBounds(k) THEN (NativeWord(k) \div Pow2(15 - (j % 16))) % 2
     ELSE fill

\* for (i = 0; i < ht; i++) for (j = coff0; j < coff1; j++)
Scan(coff0, coff1) == (0 .. ht - 1) \X (coff0 .. coff1 - 1)

PixelsInBounds(cells) ==
  \A c \in cells : WordInBounds(c[1] * rw + (c[2] \div 16))

Samples(cells, fill) == { << c[1], c[2], Pixel(c[1], c[2], fill) >> : c \in cells }

SetMin(S) == CHOOSE x \in S : \A y \in S : x <= y
SetMax(S) == CHOOSE x \in S : \A y \in S : x >= y

\* -------------------------------------------------------------- bounding box
InkRows(r) == { i \in 0 .. ht - 1 : \E j \in 0 .. wd - 1 : r[i * wd + j] # 0 }
InkCols(r) == { j \in 0 .. wd - 1 : \E i \in 0 .. ht - 1 : r[i * wd + j] # 0 }

\* top = ht; ... if (bit && (i < top)) top = i;
BoxTop(r) == IF InkRows(r) = {} THEN ht ELSE SetMin(InkRows(r))
\* bot = 0; ... if (bit && (i > bot)) bot = i;
BoxBot(r) == IF InkRows(r) = {} THEN 0 ELSE SetMax(InkRows(r))
\* left = wd; ... if (bit && (j < left)) left = j;
BoxLeft(r) == IF InkCols(r) = {} THEN wd ELSE SetMin(InkCols(r))
\* right = 0; ... if (bit && (j > right)) right = j;
BoxRight(r) == IF InkCols(r) = {} THEN 0 ELSE SetMax(InkCols(r))

\* memset(gp, 0, wd * ht)
ZeroRaster(w, h) == [k \in 0 .. w * h - 1 |-> 0]

\* ------------------------------------------------------- FontInfo, one glyph
\* The offset with the high byte of ow taken as a signed 8-bit value.
KernOffsetSigned(ow) ==
  (IF (ow \div 256) % 256 >= 128 THEN ((ow \div 256) % 256) - 256
   ELSE (ow \div 256) % 256) + mk

\* ((ow >> 8) & 0xff) + mk: the high byte of ow, as an unsigned value, plus
\* the kerning maximum.
KernOffset(ow) == ((ow \div 256) % 256) + mk

\* xoff = ((ow >> 8) & 0xff) + mk, stored in an INT16.
XOff(ow) == ToInt16(KernOffset(ow))

\* The cells FontInfo overlays: those with (int)((j - coff0) + xoff) >= 0.
InfoCells(coff0, coff1, xoff) ==
  { c \in Scan(coff0, coff1) : (c[2] - coff0) + xoff >= 0 }

\* The index in gp [ i * wd + ( j - coff0 ) + xoff ].
InfoIdx(c, coff0, xoff) == c[1] * wd + (c[2] - coff0) + xoff

InfoWritesInBounds(coff0, coff1, xoff) ==
  \A c \in InfoCells(coff0, coff1, xoff) : InfoIdx(c, coff0, xoff) < wd * ht

\* gp[...] |= pixel, for every cell; a write outside gp leaves gp as it is.
Overlay(r, coff0, coff1, xoff, fill) ==
  [k \in 0 .. wd * ht - 1 |->
     IF r[k] = 1 \/ \E c \in InfoCells(coff0, coff1, xoff) :
                        /\ InfoIdx(c, coff0, xoff) = k
                        /\ Pixel(c[1], c[2], fill) = 1
     THEN 1 ELSE 0]

\* ------------------------------------------------------- FontDump, one glyph
\* gp [ i * wd + ( j - coff0 ) ] = bit, in the order of the loops: the value
\* cell k holds afterwards is the one of the last row that wrote it (0 after
\* the memset when no row did).
DumpCell(k, coff0, coff1, fill) ==
  LET rows == { i \in 0 .. ht - 1 : k - i * wd \in 0 .. (coff1 - coff0) - 1 }
  IN IF rows = {} THEN 0
     ELSE Pixel(SetMax(rows), coff0 + (k - SetMax(rows) * wd), fill)

DumpRaster(coff0, coff1, fill) ==
  [k \in 0 .. wd * ht - 1 |-> DumpCell(k, coff0, coff1, fill)]

DumpWritesInBounds(coff0, coff1) ==
  \A c \in Scan(coff0, coff1) : c[1] * wd + (c[2] - coff0) < wd * ht

\* gp[k] as the row loop reads it.  Past the end of gp the memory read is the
\* stack: it keeps what the extraction loop stored there ("retain"), or holds
\* something else ("zero", "one").
GpRead(k, coff0, coff1, mode) ==
  IF k < wd * ht \/ mode = "retain"
  THEN DumpCell(k, coff0, coff1, IF mode = "one" THEN 1 ELSE 0)
  ELSE IF mode = "one" THEN 1 ELSE 0

\* for (j = 0, bits = 0; j < (coff1 - coff0); j++, bits <<= 1) {
\*   bits |= gp[i * wd + j];
\*   if ((j & 7) == 7) { fprintf(fout, "%02x", bits); bits = 0; }
\* }
\* bits <<= 7 - (j % 8);
\* if (j & 7) fprintf(fout, "%02x\n", bits); else fprintf(fout, "\n");
RECURSIVE RowLoop(_, _, _, _, _, _, _)
RowLoop(i, j, bits, text, coff0, coff1, mode) ==
  IF j < coff1 - coff0
  THEN LET b == bits + GpRead(i * wd + j, coff0, coff1, mode)
       IN IF j % 8 = 7
          THEN RowLoop(i, j + 1, 0, text \o Hex02(b), coff0, coff1, mode)
          ELSE RowLoop(i, j + 1, b * 2, text, coff0, coff1, mode)
  ELSE IF j % 8 # 0
       THEN text \o Hex02(bits * Pow2(7 - (j % 8)))
       ELSE text

\* for (i = top; i <= bot; i++): one line per row.
BitmapRows(top, bot, coff0, coff1, mode) ==
  [n \in 1 .. (IF bot >= top THEN bot - top + 1 ELSE 0) |->
     RowText(RowLoop(top + n - 1, 0, 0, << >>, coff0, coff1, mode))]

\* The row loop reads gp[i * wd + j] inside gp only.
RowReadsInBounds(top, bot, coff0, coff1) ==
  \A i \in top .. bot : \A j \in 0 .. (coff1 - coff0) - 1 : i * wd + j < wd * ht

\* The lines of one glyph record.
GlyphLines(code, coff0, coff1, ow, top, bot, mode) ==
  << Line("STARTCHAR", << code >>),
     Line("ENCODING", << code >>),
     Line("SWIDTH", << (ow % 256) * 720, 0 >>),
     Line("DWIDTH", << ow % 256, 0 >>),
     Line("BBX", << coff1 - coff0,
                    (bot - top) + 1,
                    KernOffset(ow),
                    (ht - descent) - (bot + 1) >>),
     Line("BITMAP", << >>) >>
  \o BitmapRows(top, bot, coff0, coff1, mode)
  \o << Line("ENDCHAR", << >>) >>

\* The lines FontDump writes before the glyph records.
HeaderLines(r) ==
  << Line("STARTFONT", << >>),
     Line("FONT", << size >>),
     Line("SIZE", << size, 72, 72 >>),
     Line("FONTBOUNDINGBOX", << (r.right - r.left) + 1,
                                (r.bottom - r.top) + 1,
                                mk,
                                (ht - descent) - (r.bottom + 1) >>),
     Line("STARTPROPERTIES", << 2 >>),
     Line("FONT_ASCENT", << toshort(fp.ftAscent) >>),
     Line("FONT_DESCENT", << descent >>),
     Line("ENDPROPERTIES", << >>),
     Line("CHARS", << r.ng >>) >>


\* ------------------------------------------------------------------ inputs
\* The fonts the calls are made on: every combination of a small range of
\* codes, glyph spans, kerning, rectangle and image, then fonts whose last
\* code is 65535, then fonts whose kernMax is the largest INT16.
\* A font has the codes first .. last; the
\* location table holds the running sum of the glyphs' column spans, with one
\* more glyph (the missing-glyph image, of no width here) after the last
\* code; the offset/width table holds one word per glyph and the final -1.
Ranges ==
  { << 65, 65 + k >> : k \in 0 .. MaxGlyphs - 1 } \cup { << 66, 65 >> }

\* A font whose last code is the largest CARD16.
TopRange == << W16 - 2, W16 - 1 >>

NCodes(r) == IF r[2] >= r[1] THEN r[2] - r[1] + 1 ELSE 0

RECURSIVE SumTo(_, _)
SumTo(spans, k) == IF k = 0 THEN 0 ELSE SumTo(spans, k - 1) + spans[k]

\* The column spans of n glyphs.
SpanSeqs(n) == { sp \in [1 .. n -> 0 .. MaxCols] : SumTo(sp, n) <= MaxCols }

LocWords(spans) ==
  [k \in 1 .. Len(spans) + 2 |->
     SumTo(spans, IF k <= Len(spans) THEN k - 1 ELSE Len(spans))]

\* High byte 0 or 129, low byte (the advance width) 8 or 4, plus the index.
OwBases == { 8, 129 * 256 + 4 }

OwWords(n, base) ==
  [k \in 1 .. n + 2 |-> IF k <= n + 1 THEN base + (k - 1) ELSE W16 - 1]

RECURSIVE Bytes(_)
Bytes(words) ==
  IF words = << >> THEN << >>
  ELSE BE16(words[1]) \o Bytes(Tail(words))

\* One scanline of one 16-bit word: blank, or ink in columns 0 and 2 (and in
\* columns 9 and 11).
RowPatterns == { << 0, 0 >>, << 160, 80 >> }

\* The bit images: one scanline, blank or inked; two scanlines, not both
\* blank.
Images ==
  [1 .. 1 -> RowPatterns]
    \cup { im \in [1 .. 2 -> RowPatterns] : \E i \in 1 .. 2 : im[i] # << 0, 0 >> }

RECURSIVE Flatten(_)
Flatten(rows) == IF rows = << >> THEN << >> ELSE rows[1] \o Flatten(Tail(rows))

Heights == { 1, 2 }
Widths == { 1, 2 }
KernVals == { -128, 0 }
JunkVals == { 0, 7 }
Names == { "NULL", "", "Geneva" }
Sizes == { 0, 12 }

Header(r, kern, w, h) ==
  [ftFirstChar |-> BE16(r[1]), ftLastChar |-> BE16(r[2]),
   ftKernMax |-> BE16(kern), ftFRectWidth |-> BE16(w),
   ftFRectHeight |-> BE16(h), ftAscent |-> BE16(h), ftDescent |-> BE16(0),
   ftRowWords |-> BE16(1)]

Font(r, kern, w, h, spans, base, image) ==
  [r |-> r, kern |-> kern, w |-> w, h |-> h, spans |-> spans, base |-> base,
   image |-> image]

Fonts ==
  { Font(r, kern, w, h, spans, base, image) :
      r \in Ranges, kern \in KernVals, w \in Widths, h \in Heights,
      spans \in UNION { SpanSeqs(n) : n \in 0 .. MaxGlyphs },
      base \in OwBases,
      image \in Images }
  \cup
  { Font(r, kern, w, 1, spans, base, image) :
      r \in { TopRange }, kern \in { 0 }, w \in Widths,
      spans \in [1 .. 2 -> 0 .. 1], base \in OwBases,
      image \in [1 .. 1 -> RowPatterns] }
  \cup
  { Font(r, kern, w, 1, spans, base, image) :
      r \in { << 65, 66 >> }, kern \in { MaxInt16 }, w \in Widths,
      spans \in [1 .. 2 -> 0 .. 1], base \in OwBases,
      image \in [1 .. 1 -> RowPatterns] }

WellFormed(f) == Len(f.spans) = NCodes(f.r) /\ Len(f.image) = f.h

Junk(v) == [top |-> v, left |-> v, bottom |-> v, right |-> v, ng |-> v]

Init ==
  /\ \E f \in { x \in Fonts : WellFormed(x) } :
       /\ fp = Header(f.r, f.kern, f.w, f.h)
       /\ mem = Flatten(f.image) \o Bytes(LocWords(f.spans))
                  \o Bytes(OwWords(NCodes(f.r), f.base))
  /\ oddAddr \in BOOLEAN
  /\ littleEndian \in BOOLEAN
  /\ pc = "idle"
  /\ entry = "none"
  /\ name = "NULL"
  /\ size = 0
  /\ fg = 0 /\ lg = 0 /\ mk = 0 /\ wd = 0 /\ ht = 0 /\ rw = 0
  /\ g = 0
  /\ ng = 0
  /\ gp = << >>
  /\ ret = Junk(0)
  /\ fout = << >>
  /\ fopens = 0
  /\ isOpen = FALSE
  /\ decoded = FALSE
  /\ result = "none"
  /\ log = << >>
  /\ wrapSteps = 0

\* ----------------------------------------------------------------- actions
\* The outcomes of one loop iteration.  "exact": every access is inside its
\* object.  Otherwise the behaviour is undefined: the process is killed
\* ("crash"), or it goes on; stores outside the raster then land in the
\* memory after it, and a read outside an object gives what that memory
\* holds: what was stored there ("retain", when nothing else is read outside),
\* or all zeros ("zero") or all ones ("one").
Modes(allOk, pixelsOk, rasterReadsOk) ==
  IF allOk THEN { "exact" }
  ELSE { "crash" }
         \cup (IF pixelsOk THEN { "retain" } ELSE { })
         \cup (IF pixelsOk /\ rasterReadsOk THEN { } ELSE { "zero", "one" })

Fill(mode) == IF mode = "one" THEN 1 ELSE 0

\* g++ on a CARD16.
Advance ==
  /\ g' = (g + 1) % W16
  /\ wrapSteps' = IF wrapSteps > 0 \/ g + 1 = W16 THEN wrapSteps + 1 ELSE 0

Crash ==
  /\ pc' = "crashed"
  /\ UNCHANGED << g, ng, gp, fout, log, wrapSteps >>

\* FontInfo from its first statement to the first test of the loop.
\*   if (lg == fg) return;   ... for (g = fg, ng = 0; ...
EnterFontInfo ==
  /\ Decode
  /\ IF lg' = fg'
     THEN /\ pc' = IF entry' = "FontDump" THEN "header" ELSE "done"
          /\ UNCHANGED << g, ng, gp >>
     ELSE /\ pc' = "info"
          /\ g' = fg'
          /\ ng' = 0
          /\ gp' = ZeroRaster(wd', ht')

\* A client calls FontInfo; its five result variables hold v before the call.
CallFontInfo ==
  /\ pc = "idle"
  /\ entry' = "FontInfo"
  /\ \E v \in JunkVals : ret' = Junk(v)
  /\ EnterFontInfo
  /\ UNCHANGED << fp, mem, oddAddr, littleEndian, name, size, fout, fopens,
                  isOpen, decoded, result, log, wrapSteps >>

\* FontDump's locals top, left, bot, right, ng before FontInfo stores into
\* them.  They are not read before that: FontDump calls FontInfo with
\* lg # fg only, and FontInfo then stores all five before it returns.
Uninitialised == Junk(SetMax(JunkVals))

\* A client calls FontDump(fp, n, style, s): everything up to the call of
\* FontInfo.  canOpen is whether fopen(fname, "w+") succeeds.
CallFontDump ==
  /\ pc = "idle"
  /\ entry' = "FontDump"
  /\ \E n \in Names, s \in Sizes, canOpen \in BOOLEAN :
       /\ name' = n
       /\ size' = s
       /\ IF n = "NULL" \/ s = 0
          THEN \* if (! fp || ! name || ! size) return 1;
               /\ result' = RetOk
               /\ pc' = "done"
               /\ UNCHANGED << fg, lg, mk, wd, ht, rw >>
               /\ UNCHANGED << decoded, fopens, isOpen, ret, g, ng, gp >>
          ELSE IF toushort(fp.ftLastChar) = toushort(fp.ftFirstChar)
          THEN \* if (lg == fg) return 1;
               /\ Decode
               /\ decoded' = TRUE
               /\ result' = RetOk
               /\ pc' = "done"
               /\ UNCHANGED << fopens, isOpen, ret, g, ng, gp >>
          ELSE IF ~ canOpen
          THEN \* if (! (fout = fopen(fname, "w+"))) { ...; return 0; }
               /\ Decode
               /\ decoded' = TRUE
               /\ result' = RetFail
               /\ pc' = "done"
               /\ UNCHANGED << fopens, isOpen, ret, g, ng, gp >>
          ELSE \* FontInfo(fp, & top, & left, & bot, & right, & ng);
               /\ decoded' = TRUE
               /\ fopens' = fopens + 1
               /\ isOpen' = TRUE
               /\ ret' = Uninitialised
               /\ EnterFontInfo
               /\ UNCHANGED result
  /\ UNCHANGED << fp, mem, oddAddr, littleEndian, fout, log, wrapSteps >>

\* One iteration of FontInfo's loop: for (...; g <= lg; g++) { ... }
InfoGlyph ==
  /\ pc = "info"
  /\ g <= lg
  /\ wrapSteps <= MaxWrapSteps
  /\ LET a0 == locTable + ((g - fg) + 0) * 2
         a1 == locTable + ((g - fg) + 1) * 2
         ao == owTable + (g - fg) * 2
     IN \E coff0 \in ReadVals(a0), coff1 \in ReadVals(a1) :
          IF coff0 = coff1
          THEN \* continue
               \E mode \in Modes(InBounds(a0) /\ InBounds(a1), TRUE, TRUE) :
                 IF mode = "crash" THEN Crash
                 ELSE /\ Advance
                      /\ log' = Append(log,
                           [fn |-> "FontInfo", code |-> g, coff0 |-> coff0,
                            coff1 |-> coff1, live |-> FALSE, ow |-> 0,
                            xoff |-> 0, top |-> 0, bot |-> 0, at |-> 0,
                            mode |-> mode, samples |-> {}])
                      /\ UNCHANGED << pc, ng, gp, fout >>
          ELSE \E ow \in ReadVals(ao) :
                 LET xoff == XOff(ow)
                     cells == InfoCells(coff0, coff1, xoff)
                     defined == /\ InBounds(a0) /\ InBounds(a1) /\ InBounds(ao)
                                /\ PixelsInBounds(cells)
                                /\ InfoWritesInBounds(coff0, coff1, xoff)
                 IN \E mode \in Modes(defined, PixelsInBounds(cells), TRUE) :
                      IF mode = "crash" THEN Crash
                      ELSE /\ Advance
                           /\ gp' = Overlay(gp, coff0, coff1, xoff, Fill(mode))
                           /\ ng' = ToInt16(ng + 1)
                           /\ log' = Append(log,
                                [fn |-> "FontInfo", code |-> g,
                                 coff0 |-> coff0, coff1 |-> coff1,
                                 live |-> TRUE, ow |-> ow, xoff |-> xoff,
                                 top |-> 0, bot |-> 0, at |-> 0,
                                 mode |-> mode,
                                 samples |-> Samples(cells, Fill(mode))])
                           /\ UNCHANGED << pc, fout >>
  /\ UNCHANGED << fp, mem, oddAddr, littleEndian, entry, name, size, ret,
                  fopens, isOpen, decoded, result, fg, lg, mk, wd, ht, rw >>

\* The end of FontInfo: the two bounding-box scans and the five stores.
InfoReturn ==
  /\ pc = "info"
  /\ g > lg
  /\ ret' = [top |-> BoxTop(gp), left |-> ToInt16(BoxLeft(gp) + mk),
             bottom |-> BoxBot(gp), right |-> ToInt16(BoxRight(gp) + mk),
             ng |-> ng]
  /\ pc' = IF entry = "FontDump" THEN "header" ELSE "done"
  /\ UNCHANGED << fp, mem, oddAddr, littleEndian, entry, name, size, g, ng, gp,
                  fout, fopens, isOpen, decoded, result, log, wrapSteps >>
  /\ UNCHANGED << fg, lg, mk, wd, ht, rw >>

\* FontDump from STARTFONT to CHARS, and the start of its loop.
DumpHeader ==
  /\ pc = "header"
  /\ fout' = fout \o HeaderLines(ret)
  /\ g' = fg
  /\ wrapSteps' = 0
  /\ pc' = "dump"
  /\ UNCHANGED << fp, mem, oddAddr, littleEndian, entry, name, size, ng, gp,
                  ret, fopens, isOpen, decoded, result, log >>
  /\ UNCHANGED << fg, lg, mk, wd, ht, rw >>

\* One iteration of FontDump's loop.
DumpGlyph ==
  /\ pc = "dump"
  /\ g <= lg
  /\ wrapSteps <= MaxWrapSteps
  /\ LET a0 == locTable + ((g - fg) + 0) * 2
         a1 == locTable + ((g - fg) + 1) * 2
         ao == owTable + (g - fg) * 2
     IN \E coff0 \in ReadVals(a0), coff1 \in ReadVals(a1) :
          IF coff0 = coff1
          THEN \* continue
               \E mode \in Modes(InBounds(a0) /\ InBounds(a1), TRUE, TRUE) :
                 IF mode = "crash" THEN Crash
                 ELSE /\ Advance
                      /\ log' = Append(log,
                           [fn |-> "FontDump", code |-> g, coff0 |-> coff0,
                            coff1 |-> coff1, live |-> FALSE, ow |-> 0,
                            xoff |-> 0, top |-> 0, bot |-> 0, at |-> 0,
                            mode |-> mode, samples |-> {}])
                      /\ UNCHANGED << pc, ng, gp, fout >>
          ELSE \E ow \in ReadVals(ao) :
                 LET cells == Scan(coff0, coff1)
                     sure == /\ InBounds(a0) /\ InBounds(a1) /\ InBounds(ao)
                             /\ PixelsInBounds(cells)
                             /\ DumpWritesInBounds(coff0, coff1)
                     r0 == DumpRaster(coff0, coff1, 0)
                 IN \E mode \in Modes(sure, PixelsInBounds(cells),
                                      RowReadsInBounds(BoxTop(r0), BoxBot(r0),
                                                       coff0, coff1)) :
                      IF mode = "crash" THEN Crash
                      ELSE LET r == DumpRaster(coff0, coff1, Fill(mode))
                               top == BoxTop(r)
                               bot == BoxBot(r)
                           IN /\ Advance
                              /\ gp' = r
                              /\ fout' = fout \o
                                   GlyphLines(g, coff0, coff1, ow, top, bot, mode)
                              /\ log' = Append(log,
                                   [fn |-> "FontDump", code |-> g,
                                    coff0 |-> coff0, coff1 |-> coff1,
                                    live |-> TRUE, ow |-> ow, xoff |-> 0,
                                    top |-> top, bot |-> bot,
                                    at |-> Len(fout) + 1,
                                    mode |-> mode,
                                    samples |-> Samples(cells, Fill(mode))])
                              /\ UNCHANGED << pc, ng >>
  /\ UNCHANGED << fp, mem, oddAddr, littleEndian, entry, name, size, ret,
                  fopens, isOpen, decoded, result, fg, lg, mk, wd, ht, rw >>

\* fprintf(fout, "ENDFONT\n"); fclose(fout); return 1;
DumpFinish ==
  /\ pc = "dump"
  /\ g > lg
  /\ fout' = Append(fout, Line("ENDFONT", << >>))
  /\ isOpen' = FALSE
  /\ result' = RetOk
  /\ pc' = "done"
  /\ UNCHANGED << fp, mem, oddAddr, littleEndian, entry, name, size, g, ng, gp,
                  ret, fopens, decoded, log, wrapSteps >>
  /\ UNCHANGED << fg, lg, mk, wd, ht, rw >>

Next ==
  \/ CallFontInfo
  \/ CallFontDump
  \/ InfoGlyph
  \/ InfoReturn
  \/ DumpHeader
  \/ DumpGlyph
  \/ DumpFinish

Spec == Init /\ [][Next]_vars


\* The same calls on a big-endian host only.
InitBE == Init /\ ~ littleEndian

SpecBE == InitBE /\ [][Next]_vars

\* ------------------------------------------------- the resource, as laid out
\* What the properties below say about the resource is read from its bytes
\* here, apart from the locals of the code.
FirstChar == fp.ftFirstChar[1] * 256 + fp.ftFirstChar[2]
LastChar == fp.ftLastChar[1] * 256 + fp.ftLastChar[2]
Height == fp.ftFRectHeight[1] * 256 + fp.ftFRectHeight[2]
RowWords == fp.ftRowWords[1] * 256 + fp.ftRowWords[2]
KernMax ==
  IF fp.ftKernMax[1] >= 128
  THEN fp.ftKernMax[1] * 256 + fp.ftKernMax[2] - W16
  ELSE fp.ftKernMax[1] * 256 + fp.ftKernMax[2]

\* The big-endian 16-bit word at 16-bit index k from the start of the image.
WordAt(k) == mem[2 * k + 1] * 256 + mem[2 * k + 2]

\* Entry i of the location table, which follows the RowWords * Height words
\* of the image.
LocWord(i) == WordAt(RowWords * Height + i)

\* The codes of the font whose two location-table entries differ.
LiveCodes ==
  { c \in FirstChar .. LastChar :
      LocWord(c - FirstChar) # LocWord((c - FirstChar) + 1) }

\* The pixel of scanline i, bit column j: bit 7 - j mod 8 of the byte at
\* offset 2 * i * RowWords + j div 8.
SourceBit(i, j) ==
  (mem[2 * i * RowWords + (j \div 8) + 1] \div Pow2(7 - (j % 8))) % 2

\* ------------------------------------------------------- the file, as written
LinesOf(kw) == SelectSeq(fout, LAMBDA l : l.kw = kw)

\* The line after position p that ends the glyph record starting at p.
EndOf(p) == SetMin({ q \in p .. Len(fout) : fout[q].kw = "ENDCHAR" })

\* The bitmap rows of the glyph record starting at p.
RowsOf(p) == SubSeq(fout, p + 6, EndOf(p) - 1)

\* The iterations that wrote a glyph record.
Emitted == { n \in 1 .. Len(log) : log[n].fn = "FontDump" /\ log[n].live }

\* The live codes in increasing order.
RECURSIVE Ascending(_)
Ascending(S) ==
  IF S = {} THEN << >> ELSE << SetMin(S) >> \o Ascending(S \ { SetMin(S) })

\* FontDump was called with a family name and a size, and has returned the
\* value it returns after a conversion.
Converted ==
  /\ entry = "FontDump"
  /\ pc = "done"
  /\ name \notin { "NULL", "" }
  /\ size # 0
  /\ result = RetOk

\* C1: FontDump creates the output file only when the font has at least one
\* live glyph: with no live glyph no file is created and no line written,
\* whatever firstChar and lastChar are; with a live glyph, a conversion
\* creates exactly one file.
C1_FileOnlyForLiveGlyphs ==
  /\ LiveCodes = {} => (fopens = 0 /\ fout = << >>)
  /\ (Converted /\ LiveCodes # {}) => fopens = 1

\* C2: a code whose two location-table entries are equal is counted by
\* neither pass and gets no record: the count FontInfo returns, the number on
\* the CHARS line and the number of STARTCHAR .. ENDCHAR records all equal the
\* number of live codes, and the ENCODING values are the live codes in
\* increasing order.
C2_CountsAgree ==
  /\ (entry = "FontInfo" /\ pc = "done") => ret.ng = Cardinality(LiveCodes)
  /\ Converted =>
       /\ Len(LinesOf("STARTCHAR")) = Cardinality(LiveCodes)
       /\ Len(LinesOf("ENDCHAR")) = Cardinality(LiveCodes)
       /\ LinesOf("CHARS") = << Line("CHARS", << Cardinality(LiveCodes) >>) >>
       /\ [n \in 1 .. Len(LinesOf("ENCODING")) |->
             LinesOf("ENCODING")[n].args[1]] = Ascending(LiveCodes)

\* C3: when firstChar = lastChar, FontInfo returns at once and its caller's
\* glyph count is 0 and its box empty after the call, whatever they held
\* before, and FontDump creates no file.
C3_EqualCodesZeroCount ==
  FirstChar = LastChar =>
    /\ (entry = "FontInfo" /\ pc = "done") => ret = Junk(0)
    /\ entry = "FontDump" => fopens = 0

\* C6: a call of FontDump with a null or empty family name, or a size of 0,
\* returns a value other than the one a conversion returns, before the
\* resource is decoded and without creating a file.
C6_UsageErrorReported ==
  (entry = "FontDump" /\ (name \in { "NULL", "" } \/ size = 0)) =>
    /\ fopens = 0
    /\ ~ decoded
    /\ pc = "done" => result # RetOk


\* The bytes a bitmap row line spells, two hexadecimal digits a byte.
HexValue(ch) == CHOOSE v \in 0 .. 15 : HexDigit[v + 1] = ch

ByteOf(text, b) == 16 * HexValue(text[2 * b + 1]) + HexValue(text[2 * b + 2])

\* Bit c of the line, the first bit being the most significant of byte 0.
BitOf(text, c) == (ByteOf(text, c \div 8) \div Pow2(7 - (c % 8))) % 2

\* C4: for every glyph FontDump emits, 0 <= top <= bottom < height, so the
\* BBX height is bottom - top + 1, at least 1 and at most height, and the
\* number of row lines between BITMAP and ENDCHAR equals it.  (Stated of the
\* iterations whose accesses all fall inside their objects.)
C4_GlyphBoxInsideRaster ==
  \A n \in Emitted :
    log[n].mode = "exact" =>
      /\ 0 <= log[n].top
      /\ log[n].top <= log[n].bot
      /\ log[n].bot < Height
      /\ fout[log[n].at + 4].args[2] = (log[n].bot - log[n].top) + 1
      /\ fout[log[n].at + 4].args[2] \in 1 .. Height
      /\ Len(RowsOf(log[n].at)) = fout[log[n].at + 4].args[2]

\* C5: for every emitted glyph of column span s and every row i from top to
\* bottom, the line is ceil(s / 8) byte pairs which, decoded most significant
\* bit first, give the source pixel of scanline i, column coff0 + c for every
\* c < s and 0 for every padding bit; for all s, widths and heights.  (Stated
\* of the iterations whose accesses all fall inside their objects, and of
\* those where the memory past the raster keeps what was stored in it.)
C5_RowsRoundTrip ==
  \A n \in Emitted :
    LET s == log[n].coff1 - log[n].coff0
        rows == RowsOf(log[n].at)
    IN (log[n].mode \in { "exact", "retain" } /\ s > 0) =>
         \A m \in 1 .. Len(rows) :
           /\ Len(rows[m].text) = 2 * ((s + 7) \div 8)
           /\ \A c \in 0 .. 8 * ((s + 7) \div 8) - 1 :
                BitOf(rows[m].text, c) =
                  IF c < s
                  THEN SourceBit(log[n].top + m - 1, log[n].coff0 + c)
                  ELSE 0

\* C7 as stated: the high byte of ow is a signed 8-bit value; the BBX x-origin
\* and FontInfo's xoff are both signed8(ow >> 8) + kernMax, DWIDTH is the low
\* byte of ow and SWIDTH is 720 times it.
Signed8(b) == IF b >= 128 THEN b - 256 ELSE b

C8_PixelIsBigEndianBit ==
  \A n \in 1 .. Len(log) :
    log[n].mode = "exact" =>
      \A t \in log[n].samples : t[3] = SourceBit(t[1], t[2])

\* C9 as stated: the location table has lastChar - firstChar + 2 entries and
\* the offset/width table starts right after them: for a code g of the font,
\* coff0 and coff1 are location entries g - firstChar and g - firstChar + 1,
\* and ow is the word at index (lastChar - firstChar + 2) + (g - firstChar)
\* from the start of the location table.
C9_OwAfterTwoExtra ==
  \A n \in 1 .. Len(log) :
    log[n].code \in FirstChar .. LastChar =>
      /\ log[n].coff0 = LocWord(log[n].code - FirstChar)
      /\ log[n].coff1 = LocWord((log[n].code - FirstChar) + 1)
      /\ log[n].live =>
           log[n].ow = LocWord((LastChar - FirstChar + 2)
                                 + (log[n].code - FirstChar))

\* C9 as amended: the location table read has lastChar - firstChar + 3
\* entries; coff0 and coff1 are its entries g - firstChar and
\* g - firstChar + 1, and ow is the word at index
\* (lastChar - firstChar + 3) + (g - firstChar) from its start.
C9_OwAfterThreeExtra ==
  \A n \in 1 .. Len(log) :
    log[n].code \in FirstChar .. LastChar =>
      /\ log[n].coff0 = LocWord(log[n].code - FirstChar)
      /\ log[n].coff1 = LocWord((log[n].code - FirstChar) + 1)
      /\ log[n].live =>
           log[n].ow = LocWord((LastChar - FirstChar + 3)
                                 + (log[n].code - FirstChar))

\* C9's case: both passes have read the entries of a live glyph that is not
\* the first code of the font, and FontDump has returned.
C9_Witness ==
  /\ Converted
  /\ \E n \in Emitted : log[n].code > FirstChar
  /\ \E n \in 1 .. Len(log) :
       log[n].fn = "FontInfo" /\ log[n].live /\ log[n].code > FirstChar

\* C10: for all firstChar # lastChar, lastChar = 65535 included, the glyph
\* loops visit the codes in increasing order, each at most once, and so end:
\* a step that stays in a loop moves the counter g to a larger code.
C10_LoopsVisitCodesInOrder ==
  [][(pc \in { "info", "dump" } /\ pc' = pc) => g' > g]_vars

=============================================================================
